---- MODULE Spec2Model ----
(***************************************************************************)
(* A model of g_boot_cluster.py: the naming functions, the argument        *)
(* parser, and the asyncio fan-out of gcloud calls made by main_async.     *)
(*                                                                         *)
(* Strings are sequences of one-character strings, so that str.replace,    *)
(* str.lower, slicing, str.isdigit, int() and str.split act on characters. *)
(* Python's None is the empty tuple, and a present value v is <<v>>.       *)
(***************************************************************************)
EXTENDS Integers, Sequences, FiniteSets, TLC

VARIABLES
  args,     \* the argparse namespace handed to main_async
  mainPc,   \* where main_async stands
  batch,    \* the batch coroutines of the running phase, with their tasks
  readyQ,   \* the event loop's FIFO of tasks scheduled and not yet run
  files,    \* the working directory: file name -> content
  out,      \* which summary lines were printed so far, in order
  nm        \* a pure function applied to one input (NamingSpec, ParserSpec)

vars == <<args, mainPc, batch, readyQ, files, out, nm>>

\* ---------------------------------------------------------------- bounds
MaxArgv == 5        \* words after --create plus flags in one command line
MaxAsked == 2       \* instances asked for in one command line, all requests together
MaxFleet == 2       \* records in one provider listing
MaxTagLen == 2      \* characters of a short workload tag (NamingSpec)
MaxNames == 11      \* count given to generate_instance_names (NamingSpec)
MaxParsed == 2      \* requests after one --create (ParserSpec)

\* ------------------------------------------------------------- optionals
None == <<>>
Some(v) == <<v>>
Get(o) == o[1]

\* --------------------------------------------------------------- strings
Min(a, b) == IF a < b THEN a ELSE b

DigitChars == <<"0", "1", "2", "3", "4", "5", "6", "7", "8", "9">>

UpperChars == <<"A", "B", "C", "D", "E", "F", "G", "H", "I", "J", "K", "L", "M",
                "N", "O", "P", "Q", "R", "S", "T", "U", "V", "W", "X", "Y", "Z">>

LowerChars == <<"a", "b", "c", "d", "e", "f", "g", "h", "i", "j", "k", "l", "m",
                "n", "o", "p", "q", "r", "s", "t", "u", "v", "w", "x", "y", "z">>

\* str.replace(old, new) for one-character old and new
Replace(s, old, new) == [i \in 1..Len(s) |-> IF s[i] = old THEN new ELSE s[i]]

LowerChar(c) ==
  IF \E k \in 1..Len(UpperChars) : UpperChars[k] = c
  THEN LowerChars[CHOOSE k \in 1..Len(UpperChars) : UpperChars[k] = c]
  ELSE c

\* str.lower()
Lower(s) == [i \in 1..Len(s) |-> LowerChar(s[i])]

\* the length cap of the slice in escape_docker_tag
TagCap == 50

\* s[:n]
Prefix(s, n) == SubSeq(s, 1, Min(Len(s), n))

\* str.isdigit()
IsDigit(s) ==
  /\ Len(s) > 0
  /\ \A i \in 1..Len(s) : \E k \in 1..Len(DigitChars) : DigitChars[k] = s[i]

DigitVal(c) == (CHOOSE k \in 1..Len(DigitChars) : DigitChars[k] = c) - 1

\* int(s) of a string of digits
RECURSIVE ParseInt(_)
ParseInt(s) ==
  IF Len(s) = 0 THEN 0
  ELSE 10 * ParseInt(SubSeq(s, 1, Len(s) - 1)) + DigitVal(s[Len(s)])

\* str(i) of a natural number, as the f-strings format it
RECURSIVE Str(_)
Str(i) ==
  IF i < 10 THEN <<DigitChars[i + 1]>>
  ELSE Str(i \div 10) \o <<DigitChars[(i % 10) + 1]>>

\* s.split("/")[0]
RECURSIVE FirstSegment(_)
FirstSegment(s) ==
  IF Len(s) = 0 THEN <<>>
  ELSE IF Head(s) = "/" THEN <<>>
  ELSE <<Head(s)>> \o FirstSegment(Tail(s))

\* s.split("/")[-1]
RECURSIVE LastSegment(_)
LastSegment(s) ==
  IF Len(s) = 0 THEN <<>>
  ELSE IF s[Len(s)] = "/" THEN <<>>
  ELSE LastSegment(SubSeq(s, 1, Len(s) - 1)) \o <<s[Len(s)]>>

\* ---------------------------------------------------------------- naming
\* escape_docker_tag without its last replace
escape_docker_tag_no_underscore(docker_tag) ==
  Prefix(Lower(Replace(Replace(Replace(docker_tag,
           "/", "-"), ":", "-"), ".", "-")), TagCap)

escape_docker_tag(docker_tag) ==
  Prefix(Lower(Replace(Replace(Replace(Replace(docker_tag,
           "/", "-"), ":", "-"), ".", "-"), "_", "-")), TagCap)

\* generate_instance_names counting from 1 up to num_instances - 1
generate_instance_names_from_one(docker_tag, num_instances) ==
  [k \in 1..(num_instances - 1) |->
     escape_docker_tag(docker_tag) \o <<"-">> \o Str(k)]

generate_instance_names(docker_tag, num_instances) ==
  [k \in 1..num_instances |->
     escape_docker_tag(docker_tag) \o <<"-">> \o Str(k - 1)]

\* startup_script_name in create_instance
ScriptName(docker_tag) ==
  <<"startup-script_">> \o escape_docker_tag(docker_tag) \o <<".sh">>

\* a startup script that names the instance it is written for
StartupScriptPerInstance(docker_tag, instance_name, zone) ==
  <<"#!/bin/bash ... docker run ... --name ">> \o instance_name \o <<" ">>
    \o docker_tag
    \o <<" nano_node daemon --network=beta --config node.rocksdb.enable=true">>

\* startup_script in create_instance: the template around the docker tag
StartupScript(docker_tag, instance_name, zone) ==
  <<"#!/bin/bash ... docker run ... --name nanobeta ">> \o docker_tag
    \o <<" nano_node daemon --network=beta --config node.rocksdb.enable=true">>

\* ---------------------------------------------------------------- parser
\* process_create_args from position i (1-based) with parsed_args so far.
\* ok = FALSE stands for the IndexError of create_args[i + 1] or the
\* ValueError of int() that leaves the function.  The words of the modelled
\* command lines hold no sign, blank or underscore, so int() accepts a word
\* exactly when it is made of digits.
RECURSIVE ParseFrom(_, _, _)
ParseFrom(create_args, i, parsed_args) ==
  IF i > Len(create_args) THEN [ok |-> TRUE, reqs |-> parsed_args]
  ELSE IF i + 1 > Len(create_args) \/ ~IsDigit(create_args[i + 1])
  THEN [ok |-> FALSE, reqs |-> parsed_args]
  ELSE LET hasZone == i + 2 <= Len(create_args) /\ ~IsDigit(create_args[i + 2])
           req == [docker_tag |-> create_args[i],
                   num_instances |-> ParseInt(create_args[i + 1]),
                   zone |-> IF hasZone THEN Some(create_args[i + 2]) ELSE None]
       IN ParseFrom(create_args, IF hasZone THEN i + 3 ELSE i + 2,
                    Append(parsed_args, req))

process_create_args(create_args) == ParseFrom(create_args, 1, <<>>)

\* ------------------------------------------------------------ environment
\* What the user types after --create for one request: TAG COUNT [ZONE]
FlattenOne(req) ==
  <<req.docker_tag, Str(req.num_instances)>>
    \o (IF req.zone = None THEN <<>> ELSE <<Get(req.zone)>>)

RECURSIVE Flatten(_)
Flatten(reqs) ==
  IF Len(reqs) = 0 THEN <<>> ELSE FlattenOne(Head(reqs)) \o Flatten(Tail(reqs))

SeqsUpTo(S, n) == UNION {[1..m -> S] : m \in 0..n}

OrchTags == {<<"a">>, <<"A">>, <<"b">>}
UserZones == {None, Some(<<"w">>)}
UserRequest == [docker_tag : OrchTags, num_instances : 0..MaxAsked, zone : UserZones]

RECURSIVE Asked(_)
Asked(reqs) ==
  IF Len(reqs) = 0 THEN 0 ELSE Head(reqs).num_instances + Asked(Tail(reqs))

Flags == [stop : BOOLEAN, restart : BOOLEAN, delete : BOOLEAN, list : BOOLEAN]

Bit(x) == IF x THEN 1 ELSE 0

\* the words of one command line: those after --create, and the flags
Argc(create, f) ==
  Len(create) + Bit(f.stop) + Bit(f.restart) + Bit(f.delete) + Bit(f.list)

\* every request adds at least two words
CreateArgs ==
  {create \in {Flatten(reqs) : reqs \in {r \in SeqsUpTo(UserRequest, MaxArgv \div 2) :
                                           Asked(r) <= MaxAsked}} :
     Len(create) <= MaxArgv}

\* the command lines: --create followed by the flattened requests, and flags
Invocations ==
  {[create |-> x[1], stop |-> x[2].stop, restart |-> x[2].restart,
    delete |-> x[2].delete, list |-> x[2].list] :
     x \in {y \in CreateArgs \X Flags : Argc(y[1], y[2]) <= MaxArgv}}

\* stdout of "gcloud compute zones list --format json": a list of zone
\* names, or (None) a payload json.loads rejects
ZonePayloads == {None, Some(<<>>), Some(<< <<"y">> >>), Some(<< <<"y">>, <<"z">> >>)}

\* the zone and status a listed record may carry
Placements == {[zone |-> <<"u", "/", "y">>, status |-> "RUNNING"],
               [zone |-> <<"z">>, status |-> "TERMINATED"],
               [zone |-> <<"u", "/", "y">>, status |-> "TERMINATED"],
               [zone |-> <<"z">>, status |-> "STOPPING"]}
InstanceRecord(k) ==
  {[name |-> <<"v", "m">> \o Str(k), zone |-> p.zone, status |-> p.status] :
     p \in Placements}
\* proc.returncode of the listing call: the tool's exit status does not
\* bind what it wrote to stdout
ExitStatuses == {0, 1}

\* stdout of "gcloud compute instances list --format json"
FleetListings ==
  UNION {{l \in [1..m -> UNION {InstanceRecord(k) : k \in 1..m}] :
            \A k \in 1..m : l[k] \in InstanceRecord(k)} : m \in 0..MaxFleet}

\* ------------------------------------------------------------------ state
NoBatch == <<>>

\* A batch coroutine.  stop_instances, restart_instances, delete_instances
\* and list_instances_console begin with their one listing call, which
\* listCalls counts; create_instances_with_docker_tag makes none.  proc is
\* the finished process of that call inside async_subprocess_run, gone when
\* the function has returned its stdout.
NewBatch(kind, req, pc) ==
  [kind |-> kind, docker_tag |-> req.docker_tag,
   num_instances |-> req.num_instances, zone |-> req.zone,
   pc |-> pc, listCalls |-> IF kind = "create" THEN 0 ELSE 1,
   proc |-> None, listing |-> None, tasks |-> <<>>, summary |-> None]

NoReq == [docker_tag |-> <<>>, num_instances |-> 0, zone |-> None]

\* a coroutine object of create_instance / stop_instance / delete_instance /
\* restart_instance wrapped in a task by gather
NewTask(name, inst) ==
  [pc |-> "ready", name |-> name, inst |-> inst, zones |-> None,
   lookups |-> 0, wrote |-> None, cmd |-> None, accepted |-> None,
   result |-> None]

Command(op, name, zone, script) ==
  [op |-> op, name |-> name, zone |-> zone, script |-> script]

Live == {"ready", "zones", "call"}

\* the working directory before the first write
NoFiles == [n \in {} |-> <<>>]

NamingIdle == [pc |-> "off", tag |-> <<>>, count |-> 0, safe |-> <<>>,
               again |-> <<>>, names |-> <<>>]

Init ==
  /\ args \in Invocations
  /\ mainPc = "start"
  /\ batch = NoBatch
  /\ readyQ = <<>>
  /\ files = NoFiles
  /\ out = <<>>
  /\ nm = NamingIdle

\* ------------------------------------------------------ pieces of actions
Task(b, k) == batch[b].tasks[k]

\* with open(startup_script_name, "w") as f: f.write(startup_script)
WriteFile(fs, name, content) ==
  [n \in (DOMAIN fs) \cup {name} |-> IF n = name THEN content ELSE fs[n]]

\* a create_instance that looks the zones up whatever it was given
NeedsZoneLookupAlways(zone) == TRUE

\* "zone is None" in the conditional expression of create_instance
NeedsZoneLookup(zone) == zone = None

\* a choice among the zones known beforehand instead of those just listed
random_choice_known(zones) == {<<"y">>, <<"z">>}

\* random.choice(zones) of a non-empty list: the values it may return
random_choice(zones) == {zones[i] : i \in 1..Len(zones)}

\* the value create_instance, stop_instance, delete_instance and
\* restart_instance return once the tool has run; accepted tells whether the
\* provider accepted the request
ReturnValue(kind, accepted) == TRUE

\* a gather that hands exceptions back among its results
GatheredWithExceptions(tasks) ==
  \A k \in DOMAIN tasks : tasks[k].pc \in {"done", "raised"}

\* "await asyncio.gather(*tasks)" returns its results: every task returned
Gathered(tasks) == \A k \in DOMAIN tasks : tasks[k].pc = "done"

\* sum(1 for result in results if result)
success_count(tasks) ==
  Cardinality({k \in DOMAIN tasks : tasks[k].result = Some(TRUE)})

\* the gcloud sub-command of each per-record coroutine
SweepOp(kind) ==
  CASE kind = "stop" -> "stop" [] kind = "restart" -> "start" [] kind = "delete" -> "delete"

\* the f-string each orchestration function prints after its gather
Summary(bt) ==
  [succeeded |-> success_count(bt.tasks), attempted |-> Len(bt.tasks)]

\* the batch at its print statement
Finished(bt) == [bt EXCEPT !.pc = "done", !.summary = Some(Summary(bt))]

\* restart_instances without its status filter
WorkingSetUnfiltered(kind, instances) == instances

\* the tasks restart_instances / stop_instances / delete_instances build
\* from the listing
WorkingSet(kind, instances) ==
  IF kind = "restart"
  THEN SelectSeq(instances, LAMBDA inst : inst.status = "TERMINATED")
  ELSE instances

\* asyncio.run cancels what is still pending when main_async raised
CancelTask(t) == IF t.pc \in Live THEN [t EXCEPT !.pc = "cancelled"] ELSE t

CancelBatch(bt) ==
  [bt EXCEPT !.pc = IF @ \in {"done", "raised"} THEN @ ELSE "cancelled",
             !.tasks = [k \in DOMAIN bt.tasks |-> CancelTask(bt.tasks[k])]]

\* a main_async that deletes before it stops and restarts
PhaseOrderDeleteFirst == <<"create", "delete", "stop", "restart", "list">>

\* the order of the "if args.X:" statements of main_async
PhaseOrder == <<"create", "stop", "restart", "delete", "list">>

Requested(p) ==
  CASE p = "create" -> args.create # <<>>
    [] p = "stop" -> args.stop
    [] p = "restart" -> args.restart
    [] p = "delete" -> args.delete
    [] p = "list" -> args.list

PhaseIndex(p) == CHOOSE i \in 1..Len(PhaseOrder) : PhaseOrder[i] = p

\* the next "if args.X:" of main_async that holds after phase number i
NextPhase(i) ==
  IF \E j \in (i + 1)..Len(PhaseOrder) : Requested(PhaseOrder[j])
  THEN PhaseOrder[CHOOSE j \in (i + 1)..Len(PhaseOrder) :
                    /\ Requested(PhaseOrder[j])
                    /\ \A h \in (i + 1)..(j - 1) : ~Requested(PhaseOrder[h])]
  ELSE "done"

\* main_async goes on to phase p, whose first statement issues a listing
\* call; spawned = FALSE is create_subprocess_exec raising
Enter(p, spawned) ==
  /\ readyQ' = <<>>
  /\ IF p = "done" THEN mainPc' = "done" /\ batch' = NoBatch
     ELSE IF spawned THEN mainPc' = p /\ batch' = <<NewBatch(p, NoReq, "listing")>>
     ELSE mainPc' = "raised" /\ batch' = <<NewBatch(p, NoReq, "raised")>>

\* a gather that schedules its last awaitable first
ScheduledLastFirst(b, n) == [k \in 1..n |-> <<b, n + 1 - k>>]

\* gather wraps its awaitables in tasks in argument order, and each new
\* task is put at the end of the loop's ready queue
Scheduled(b, n) == [k \in 1..n |-> <<b, k>>]

\* gather's outer future fails, or completes, only after the tasks it
\* scheduled had their first run: callbacks are FIFO
Settled == readyQ = <<>>

\* ---------------------------------------------------------------- actions
\* main_async up to its first await
MainStart ==
  /\ mainPc = "start"
  /\ UNCHANGED <<args, files, out, nm>>
  /\ IF args.create # <<>>
     THEN LET parsed == process_create_args(args.create)
          IN IF parsed.ok
             THEN /\ mainPc' = "create"
                  /\ batch' = [b \in 1..Len(parsed.reqs) |->
                                 NewBatch("create", parsed.reqs[b], "ready")]
                  /\ readyQ' = [b \in 1..Len(parsed.reqs) |-> <<b, 0>>]
             ELSE /\ mainPc' = "raised"
                  /\ batch' = NoBatch
                  /\ readyQ' = <<>>
     ELSE \E spawned \in BOOLEAN : Enter(NextPhase(1), spawned)

\* create_instances_with_docker_tag up to its gather
BatchStart(b) ==
  /\ readyQ # <<>> /\ Head(readyQ) = <<b, 0>>
  /\ LET bt == batch[b]
         names == generate_instance_names(bt.docker_tag, bt.num_instances)
         started == [bt EXCEPT !.tasks = [k \in 1..Len(names) |-> NewTask(names[k], None)]]
     IN IF Len(names) = 0
        THEN /\ batch' = [batch EXCEPT ![b] = Finished(started)]
             /\ out' = Append(out, bt.kind)
             /\ readyQ' = Tail(readyQ)
        ELSE /\ batch' = [batch EXCEPT ![b] = [started EXCEPT !.pc = "gather"]]
             /\ out' = out
             /\ readyQ' = Tail(readyQ) \o Scheduled(b, Len(names))
  /\ UNCHANGED <<args, mainPc, files, nm>>

\* a create_instance that starts the create call before it writes the script
IssueCreateSpawnFirst(b, k, t, zone, spawned) ==
  LET tag == batch[b].docker_tag
      startup_script == StartupScript(tag, t.name, zone)
  IN /\ files' = IF spawned THEN WriteFile(files, ScriptName(tag), startup_script)
                 ELSE files
     /\ batch' = [batch EXCEPT ![b].tasks[k] =
                    [t EXCEPT !.wrote = IF spawned THEN Some(startup_script) ELSE None,
                              !.cmd = Some(Command("create", t.name, zone,
                                                   Some(ScriptName(tag)))),
                              !.pc = IF spawned THEN "call" ELSE "raised"]]

\* create_instance from the script name to the await of the create call
IssueCreate(b, k, t, zone, spawned) ==
  LET tag == batch[b].docker_tag
      startup_script == StartupScript(tag, t.name, zone)
  IN /\ files' = WriteFile(files, ScriptName(tag), startup_script)
     /\ batch' = [batch EXCEPT ![b].tasks[k] =
                    [t EXCEPT !.wrote = Some(startup_script),
                              !.cmd = Some(Command("create", t.name, zone,
                                                   Some(ScriptName(tag)))),
                              !.pc = IF spawned THEN "call" ELSE "raised"]]

\* create_instance, first run, zone unresolved: get_zones issues its call
StartLookup(b, k) ==
  /\ readyQ # <<>> /\ Head(readyQ) = <<b, k>>
  /\ k > 0 /\ batch[b].kind = "create"
  /\ NeedsZoneLookup(batch[b].zone)
  /\ \E spawned \in BOOLEAN :
       batch' = [batch EXCEPT ![b].tasks[k].lookups = @ + 1,
                              ![b].tasks[k].pc = IF spawned THEN "zones" ELSE "raised"]
  /\ readyQ' = Tail(readyQ)
  /\ UNCHANGED <<args, mainPc, files, out, nm>>

\* create_instance, first run, zone given
StartCreate(b, k) ==
  /\ readyQ # <<>> /\ Head(readyQ) = <<b, k>>
  /\ k > 0 /\ batch[b].kind = "create"
  /\ ~NeedsZoneLookup(batch[b].zone)
  /\ \E spawned \in BOOLEAN : IssueCreate(b, k, Task(b, k), Get(batch[b].zone), spawned)
  /\ readyQ' = Tail(readyQ)
  /\ UNCHANGED <<args, mainPc, out, nm>>

\* get_zones returns a list and random.choice picks from it
ZonesReturn(b, k) ==
  /\ Settled /\ mainPc = "create"
  /\ Task(b, k).pc = "zones"
  /\ \E payload \in ZonePayloads \ {None, Some(<<>>)} :
     \E zone \in random_choice(Get(payload)) :
     \E spawned \in BOOLEAN :
       IssueCreate(b, k, [Task(b, k) EXCEPT !.zones = payload],
                   IF batch[b].zone = None THEN zone ELSE Get(batch[b].zone),
                   spawned)
  /\ UNCHANGED <<args, mainPc, readyQ, out, nm>>

\* json.loads rejects the zones payload, or random.choice gets an empty list
ZonesFail(b, k) ==
  /\ Settled /\ mainPc = "create"
  /\ Task(b, k).pc = "zones"
  /\ \E payload \in {None, Some(<<>>)} :
       batch' = [batch EXCEPT ![b].tasks[k].zones = payload,
                              ![b].tasks[k].pc = "raised"]
  /\ UNCHANGED <<args, mainPc, readyQ, files, out, nm>>

\* stop_instance / delete_instance / restart_instance up to their await
StartSweepTask(b, k) ==
  /\ readyQ # <<>> /\ Head(readyQ) = <<b, k>>
  /\ k > 0 /\ batch[b].kind # "create"
  /\ LET t == Task(b, k)
         inst == Get(t.inst)
         cmd == Command(SweepOp(batch[b].kind), inst.name, LastSegment(inst.zone), None)
     IN \E spawned \in BOOLEAN :
          batch' = [batch EXCEPT ![b].tasks[k] =
                      [t EXCEPT !.cmd = Some(cmd),
                                !.pc = IF spawned THEN "call" ELSE "raised"]]
  /\ readyQ' = Tail(readyQ)
  /\ UNCHANGED <<args, mainPc, files, out, nm>>

\* the tool ran and the provider accepted or rejected the request;
\* log_to_console prints what it wrote and the coroutine returns
CallReturn(b, k) ==
  /\ Settled /\ mainPc \notin {"done", "raised"}
  /\ Task(b, k).pc = "call"
  /\ \E accepted \in BOOLEAN :
       batch' = [batch EXCEPT ![b].tasks[k].accepted = Some(accepted),
                              ![b].tasks[k].result =
                                 Some(ReturnValue(batch[b].kind, accepted)),
                              ![b].tasks[k].pc = "done"]
  /\ UNCHANGED <<args, mainPc, readyQ, files, out, nm>>

\* gather delivered every result: count and print the summary
BatchFinish(b) ==
  /\ Settled
  /\ batch[b].pc = "gather"
  /\ Gathered(batch[b].tasks)
  /\ batch' = [batch EXCEPT ![b] = Finished(batch[b])]
  /\ out' = Append(out, batch[b].kind)
  /\ UNCHANGED <<args, mainPc, readyQ, files, nm>>

\* gather re-raises the first exception of a task.  A create batch is a
\* task of main_async's gather; the other batches are awaited by main_async
\* itself, which the exception leaves at once
BatchRaise(b) ==
  /\ Settled
  /\ batch[b].pc = "gather"
  /\ \E k \in DOMAIN batch[b].tasks : Task(b, k).pc = "raised"
  /\ IF batch[b].kind = "create"
     THEN /\ batch' = [batch EXCEPT ![b].pc = "raised"]
          /\ mainPc' = mainPc
     ELSE /\ batch' = [c \in DOMAIN batch |-> CancelBatch([batch[c] EXCEPT !.pc = "raised"])]
          /\ mainPc' = "raised"
  /\ UNCHANGED <<args, readyQ, files, out, nm>>

\* main_async's gather re-raises the exception of a create batch
MainRaise ==
  /\ mainPc = "create"
  /\ \E b \in DOMAIN batch : batch[b].pc = "raised"
  /\ mainPc' = "raised"
  /\ batch' = [c \in DOMAIN batch |-> CancelBatch(batch[c])]
  /\ readyQ' = <<>>
  /\ UNCHANGED <<args, files, out, nm>>

\* the listing call of stop_instances / restart_instances / delete_instances
\* ends: proc.communicate() returns what the tool wrote, JSON or text that
\* json.loads rejects, whatever its exit status
ListExit(b) ==
  /\ batch[b].pc = "listing" /\ batch[b].kind \in {"stop", "restart", "delete"}
  /\ \E status \in ExitStatuses : \E json \in BOOLEAN :
       batch' = [batch EXCEPT ![b].pc = "listed",
                              ![b].proc = Some([returncode |-> status, json |-> json])]
  /\ UNCHANGED <<args, mainPc, readyQ, files, out, nm>>

\* list_instances_async returns json.loads(stdout), the records the tool
\* wrote, reading nothing else of the process; the tasks are built and
\* gathered
ListReturn(b) ==
  /\ batch[b].pc = "listed" /\ Get(batch[b].proc).json
  /\ \E instances \in FleetListings :
       LET work == WorkingSet(batch[b].kind, instances)
           started == [batch[b] EXCEPT
                         !.proc = None,
                         !.listing = Some(instances),
                         !.tasks = [k \in 1..Len(work) |-> NewTask(work[k].name, Some(work[k]))]]
       IN IF Len(work) = 0
          THEN /\ batch' = [batch EXCEPT ![b] = Finished(started)]
               /\ out' = Append(out, batch[b].kind)
               /\ readyQ' = <<>>
          ELSE /\ batch' = [batch EXCEPT ![b] = [started EXCEPT !.pc = "gather"]]
               /\ out' = out
               /\ readyQ' = Scheduled(b, Len(work))
  /\ UNCHANGED <<args, mainPc, files, nm>>

\* json.loads rejects the listing payload
ListFail(b) ==
  /\ batch[b].pc = "listed" /\ ~Get(batch[b].proc).json
  /\ batch' = [batch EXCEPT ![b].pc = "raised", ![b].proc = None]
  /\ mainPc' = "raised"
  /\ UNCHANGED <<args, readyQ, files, out, nm>>

\* list_instances_console: the call returns and log_to_console prints it
ConsoleReturn(b) ==
  /\ batch[b].pc = "listing" /\ batch[b].kind = "list"
  /\ batch' = [batch EXCEPT ![b].pc = "done"]
  /\ UNCHANGED <<args, mainPc, readyQ, files, out, nm>>

\* the awaited phase is over: main_async goes on to the next flag
MainAdvance ==
  /\ mainPc \in {"create", "stop", "restart", "delete", "list"}
  /\ \A b \in DOMAIN batch : batch[b].pc = "done"
  /\ \E spawned \in BOOLEAN : Enter(NextPhase(PhaseIndex(mainPc)), spawned)
  /\ UNCHANGED <<args, files, out, nm>>

Batches == DOMAIN batch
TasksOf(b) == DOMAIN batch[b].tasks

Next ==
  \/ MainStart
  \/ MainAdvance
  \/ MainRaise
  \/ \E b \in Batches : BatchStart(b)
  \/ \E b \in Batches : BatchFinish(b)
  \/ \E b \in Batches : BatchRaise(b)
  \/ \E b \in Batches : ListExit(b)
  \/ \E b \in Batches : ListReturn(b)
  \/ \E b \in Batches : ListFail(b)
  \/ \E b \in Batches : ConsoleReturn(b)
  \/ \E b \in Batches : \E k \in TasksOf(b) : StartLookup(b, k)
  \/ \E b \in Batches : \E k \in TasksOf(b) : StartCreate(b, k)
  \/ \E b \in Batches : \E k \in TasksOf(b) : ZonesReturn(b, k)
  \/ \E b \in Batches : \E k \in TasksOf(b) : ZonesFail(b, k)
  \/ \E b \in Batches : \E k \in TasksOf(b) : StartSweepTask(b, k)
  \/ \E b \in Batches : \E k \in TasksOf(b) : CallReturn(b, k)

Spec == Init /\ [][Next]_vars

\* ------------------------------------------------- the naming functions
\* The workload tags the naming functions are applied to: every short tag
\* over the characters escape_docker_tag treats differently, and the same
\* behind a pad that brings the length to TagCap - 1, TagCap and beyond.
TagChars == {"a", "B", "/", ":", ".", "_", "-", "1"}
ShortTags == SeqsUpTo(TagChars, MaxTagLen)
Pad == [i \in 1..(TagCap - 1) |-> IF i % 2 = 0 THEN "X" ELSE "."]
NamingTags == ShortTags \cup {Pad \o t : t \in ShortTags}

NamingInit ==
  /\ nm \in {[NamingIdle EXCEPT !.pc = "input", !.tag = t, !.count = n] :
               t \in NamingTags, n \in 0..MaxNames}
  /\ args = [create |-> <<>>, stop |-> FALSE, restart |-> FALSE,
             delete |-> FALSE, list |-> FALSE]
  /\ mainPc = "off"
  /\ batch = NoBatch
  /\ readyQ = <<>>
  /\ files = NoFiles
  /\ out = <<>>

\* safe_docker_tag = escape_docker_tag(docker_tag)
Normalize ==
  /\ nm.pc = "input"
  /\ nm' = [nm EXCEPT !.pc = "safe", !.safe = escape_docker_tag(nm.tag)]
  /\ UNCHANGED <<args, mainPc, batch, readyQ, files, out>>

\* escape_docker_tag applied to its own result
NormalizeAgain ==
  /\ nm.pc = "safe"
  /\ nm' = [nm EXCEPT !.pc = "again", !.again = escape_docker_tag(nm.safe)]
  /\ UNCHANGED <<args, mainPc, batch, readyQ, files, out>>

\* generate_instance_names(docker_tag, num_instances)
GenerateNames ==
  /\ nm.pc = "again"
  /\ nm' = [nm EXCEPT !.pc = "named",
                      !.names = generate_instance_names(nm.tag, nm.count)]
  /\ UNCHANGED <<args, mainPc, batch, readyQ, files, out>>

NamingNext == Normalize \/ NormalizeAgain \/ GenerateNames

NamingSpec == NamingInit /\ [][NamingNext]_vars

\* ------------------------------------------------------------ the parser
\* The requests a user means: a non-numeric tag, a positive count, and a
\* non-numeric zone or none.
MeantRequest ==
  [docker_tag : OrchTags, num_instances : 1..MaxNames, zone : UserZones]

ParserInit ==
  /\ nm \in {[pc |-> "meant", reqs |-> r, words |-> <<>>,
               parsed |-> [ok |-> FALSE, reqs |-> <<>>]] :
               r \in SeqsUpTo(MeantRequest, MaxParsed)}
  /\ args = [create |-> <<>>, stop |-> FALSE, restart |-> FALSE,
             delete |-> FALSE, list |-> FALSE]
  /\ mainPc = "off"
  /\ batch = NoBatch
  /\ readyQ = <<>>
  /\ files = NoFiles
  /\ out = <<>>

\* the user types the requests after --create and argparse collects the words
TypeRequests ==
  /\ nm.pc = "meant"
  /\ nm' = [nm EXCEPT !.pc = "typed", !.words = Flatten(nm.reqs)]
  /\ UNCHANGED <<args, mainPc, batch, readyQ, files, out>>

\* parsed_create_args = process_create_args(args.create)
ParseWords ==
  /\ nm.pc = "typed"
  /\ nm' = [nm EXCEPT !.pc = "parsed", !.parsed = process_create_args(nm.words)]
  /\ UNCHANGED <<args, mainPc, batch, readyQ, files, out>>

ParserNext == TypeRequests \/ ParseWords

ParserSpec == ParserInit /\ [][ParserNext]_vars

\* ------------------------------------------------------------ properties
FanOutKinds == {"create", "stop", "restart", "delete"}

\* the operations of a batch the provider accepted
AcceptedCount(tasks) ==
  Cardinality({k \in DOMAIN tasks : tasks[k].accepted = Some(TRUE)})

\* C1: in every fan-out batch a failed operation neither cancels nor blocks
\* its siblings: no operation is cancelled, a batch is over only when every
\* one of its N operations has run to its end, and it then prints the
\* partial-success count: the operations that did not fail, out of N.
C1_FailureIsolated ==
  \A b \in Batches :
    batch[b].kind \in FanOutKinds =>
      /\ \A k \in TasksOf(b) : Task(b, k).pc # "cancelled"
      /\ batch[b].pc \in {"done", "raised"} =>
           /\ \A k \in TasksOf(b) : Task(b, k).pc \in {"done", "raised"}
           /\ batch[b].summary = Some([succeeded |-> AcceptedCount(batch[b].tasks),
                                       attempted |-> Len(batch[b].tasks)])

\* The part of C1 the code keeps: a batch prints its summary only when every
\* one of its operations has returned, rejected ones included, and a
\* rejection cancels nothing.
C1_SiblingsComplete ==
  /\ \A b \in Batches :
       (batch[b].kind \in FanOutKinds /\ batch[b].pc = "done") =>
         /\ \A k \in TasksOf(b) : Task(b, k).pc = "done" /\ Task(b, k).accepted # None
         /\ batch[b].summary # None
         /\ Get(batch[b].summary).attempted = Len(batch[b].tasks)
  /\ (\E b \in Batches : \E k \in TasksOf(b) : Task(b, k).pc = "cancelled") =>
       (\E b \in Batches : \E k \in TasksOf(b) : Task(b, k).pc = "raised")

\* C2: a create batch of N instances of which the provider accepts K and
\* rejects N - K issues all N create calls and prints succeeded = K,
\* attempted = N.
C2_CreateSummaryCountsAccepted ==
  \A b \in Batches :
    (batch[b].kind = "create" /\ batch[b].pc = "done") =>
      /\ Len(batch[b].tasks) = batch[b].num_instances
      /\ \A k \in TasksOf(b) :
           Task(b, k).cmd # None /\ Get(Task(b, k).cmd).op = "create"
      /\ Get(batch[b].summary).attempted = batch[b].num_instances
      /\ Get(batch[b].summary).succeeded = AcceptedCount(batch[b].tasks)

\* C3: a per-instance operation whose tool ran returns false when the
\* provider rejected the request and true only when it accepted it.
C3_ResultIsProviderVerdict ==
  \A b \in Batches : \A k \in TasksOf(b) :
    Task(b, k).pc = "done" => Task(b, k).result = Task(b, k).accepted

\* the positions of the TERMINATED records of a listing
Terminated(l) == {i \in DOMAIN l : l[i].status = "TERMINATED"}

\* C4: restart builds one start operation for each TERMINATED record of the
\* listing and none for a record of another status; each is issued as a
\* start of that record's name, and the summary's attempted count is the
\* number of TERMINATED records.
C4_RestartOnlyTerminated ==
  \A b \in Batches :
    (batch[b].kind = "restart" /\ batch[b].listing # None) =>
      LET l == Get(batch[b].listing)
          tasks == batch[b].tasks
      IN /\ Len(tasks) = Cardinality(Terminated(l))
         /\ \A i \in DOMAIN l :
              Cardinality({k \in DOMAIN tasks : tasks[k].inst = Some(l[i])})
                = IF i \in Terminated(l) THEN 1 ELSE 0
         /\ \A k \in DOMAIN tasks :
              tasks[k].cmd # None =>
                /\ Get(tasks[k].cmd).op = "start"
                /\ Get(tasks[k].cmd).name = Get(tasks[k].inst).name
         /\ Settled => \A k \in DOMAIN tasks : tasks[k].cmd # None
         /\ batch[b].pc = "done" =>
              Get(batch[b].summary).attempted = Cardinality(Terminated(l))

\* a restart that printed its summary after a listing with a TERMINATED
\* record and a record of another status
C4_Witness ==
  \E b \in Batches :
    /\ batch[b].kind = "restart" /\ batch[b].pc = "done"
    /\ batch[b].listing # None
    /\ Terminated(Get(batch[b].listing)) # {}
    /\ \E i \in DOMAIN Get(batch[b].listing) : i \notin Terminated(Get(batch[b].listing))
    /\ \E k \in TasksOf(b) : Get(Task(b, k).cmd).op = "start"

\* the characters escape_docker_tag replaces
Separators == {"/", ":", ".", "_"}

\* C5: generate_instance_names(T, N) has exactly N names, pairwise distinct,
\* the i-th (i = 0..N-1) being normalize(T), then "-", then the decimal
\* numeral of i.
C5_NamesFor ==
  nm.pc = "named" =>
    /\ Len(nm.names) = nm.count
    /\ \A i \in 1..Len(nm.names) : \A j \in 1..Len(nm.names) :
         i # j => nm.names[i] # nm.names[j]
    /\ \A i \in 1..Len(nm.names) :
         LET name == nm.names[i]
             ordinal == SubSeq(name, Len(nm.safe) + 2, Len(name))
         IN /\ Len(name) >= Len(nm.safe) + 2
            /\ SubSeq(name, 1, Len(nm.safe)) = nm.safe
            /\ name[Len(nm.safe) + 1] = "-"
            /\ IsDigit(ordinal)
            /\ ParseInt(ordinal) = i - 1
            /\ (Len(ordinal) > 1 => ordinal[1] # "0")

\* names were generated for a tag longer than the cap and a count with a
\* two-digit ordinal
C5_Witness ==
  /\ nm.pc = "named"
  /\ Len(nm.tag) > TagCap
  /\ Len(nm.names) > 10
  /\ nm.names[11] = nm.safe \o <<"-", "1", "0">>

\* C6: normalize is idempotent, its result is at most 50 characters long
\* and holds none of the characters "/", ":", ".", "_".
C6_NormalizeIdempotent ==
  nm.pc \in {"again", "named"} =>
    /\ nm.again = nm.safe
    /\ Len(nm.safe) <= 50
    /\ \A i \in 1..Len(nm.safe) : nm.safe[i] \notin Separators

\* normalize was applied twice to a tag that is longer than the cap and
\* holds a separator and an upper-case letter
C6_Witness ==
  /\ nm.pc = "again"
  /\ Len(nm.tag) > TagCap
  /\ \E i \in 1..Len(nm.tag) : nm.tag[i] = "_"
  /\ \E i \in 1..Len(nm.tag) : nm.tag[i] = "B"
  /\ nm.safe # nm.tag

CreateBatches == {b \in Batches : batch[b].kind = "create"}

\* C7: while a create call of a tag T1 instance is under way, the script
\* file it refers to, the one named for T1, holds T1's script and not the
\* content generated for another tag T2, whatever a concurrent create for
\* T2 does.
C7_NoCrossTagScript ==
  \A b1 \in CreateBatches : \A k1 \in TasksOf(b1) :
    Task(b1, k1).pc = "call" =>
      LET name == Get(Get(Task(b1, k1).cmd).script)
      IN /\ files[name] = Get(Task(b1, k1).wrote)
         /\ \A b2 \in CreateBatches : \A k2 \in TasksOf(b2) :
              (batch[b1].docker_tag # batch[b2].docker_tag /\ Task(b2, k2).wrote # None)
                => files[name] # Get(Task(b2, k2).wrote)

\* C8: all create operations of one workload tag write the same file name
\* with the same content, whatever their instance name and zone, and the
\* file holds what one of its writers wrote.
C8_SameTagSameScript ==
  /\ \A b1 \in CreateBatches : \A b2 \in CreateBatches :
     \A k1 \in TasksOf(b1) : \A k2 \in TasksOf(b2) :
       (/\ batch[b1].docker_tag = batch[b2].docker_tag
        /\ Task(b1, k1).wrote # None
        /\ Task(b2, k2).wrote # None)
         => /\ Get(Task(b1, k1).cmd).script = Get(Task(b2, k2).cmd).script
            /\ Task(b1, k1).wrote = Task(b2, k2).wrote
  /\ \A b \in CreateBatches : \A k \in TasksOf(b) :
       Task(b, k).wrote # None =>
         LET name == Get(Get(Task(b, k).cmd).script)
         IN /\ name \in DOMAIN files
            /\ \E c \in CreateBatches : \E j \in TasksOf(c) :
                 /\ Task(c, j).wrote = Some(files[name])
                 /\ Get(Task(c, j).cmd).script = Some(name)

\* two operations of one batch, with different names and zones, have
\* written the script
C8_Witness ==
  \E b \in CreateBatches : \E k1 \in TasksOf(b) : \E k2 \in TasksOf(b) :
    /\ Task(b, k1).wrote # None /\ Task(b, k2).wrote # None
    /\ Task(b, k1).name # Task(b, k2).name
    /\ Get(Task(b, k1).cmd).zone # Get(Task(b, k2).cmd).zone
    /\ files[ScriptName(batch[b].docker_tag)] = Get(Task(b, k1).wrote)

\* C9: a create batch with an explicit zone issues every create call with
\* that zone and never calls get_zones.
C9_ExplicitZonePinned ==
  \A b \in CreateBatches :
    batch[b].zone # None =>
      \A k \in TasksOf(b) :
        /\ Task(b, k).lookups = 0
        /\ Task(b, k).zones = None
        /\ Task(b, k).cmd # None => Get(Task(b, k).cmd).zone = Get(batch[b].zone)

\* "--create a 2 w": both create calls returned, both in zone w
C9_Witness ==
  /\ args.create = << <<"a">>, <<"2">>, <<"w">> >>
  /\ \E b \in CreateBatches :
       /\ batch[b].pc = "done"
       /\ Len(batch[b].tasks) = 2
       /\ \A k \in TasksOf(b) : Get(Task(b, k).cmd).zone = <<"w">>

RECURSIVE LookupsUpTo(_, _)
LookupsUpTo(tasks, n) ==
  IF n = 0 THEN 0 ELSE tasks[n].lookups + LookupsUpTo(tasks, n - 1)

\* how many times the operations of a batch called get_zones
Lookups(tasks) == LookupsUpTo(tasks, Len(tasks))

\* C10: a create batch of N instances without a zone calls get_zones once
\* per instance, N times in all, and issues each create call with a zone
\* of the list its own lookup returned.
C10_LookupPerInstance ==
  \A b \in CreateBatches :
    batch[b].zone = None =>
      /\ \A k \in TasksOf(b) :
           /\ Task(b, k).lookups = IF Task(b, k).pc = "ready" THEN 0 ELSE 1
           /\ Task(b, k).cmd # None =>
                /\ Task(b, k).zones # None
                /\ \E i \in 1..Len(Get(Task(b, k).zones)) :
                     Get(Task(b, k).zones)[i] = Get(Task(b, k).cmd).zone
      /\ (batch[b].pc # "ready" /\ Settled) =>
           Lookups(batch[b].tasks) = batch[b].num_instances

\* "--create a 2": two lookups, and the two instances in different zones
C10_Witness ==
  /\ args.create = << <<"a">>, <<"2">> >>
  /\ \E b \in CreateBatches :
       /\ batch[b].zone = None
       /\ batch[b].pc = "done"
       /\ Lookups(batch[b].tasks) = 2
       /\ Get(Task(b, 1).cmd).zone # Get(Task(b, 2).cmd).zone

\* C11: parsing the words "TAG COUNT [ZONE]" of any sequence of requests
\* (non-numeric tag, positive count, optional non-numeric zone) returns
\* exactly that sequence, in order, each zone present exactly when given.
C11_ParserRoundTrip ==
  nm.pc = "parsed" => nm.parsed = [ok |-> TRUE, reqs |-> nm.reqs]

\* C12: the batches of one --create run independently: a failure inside one
\* request's batch cancels neither another batch nor its operations, so a
\* batch none of whose own operations raised goes on to dispatch its create
\* calls, wait for them and print its summary.
C12_BatchesIndependent ==
  \A b \in CreateBatches :
    (batch[b].pc # "raised" /\ \A k \in TasksOf(b) : Task(b, k).pc # "raised") =>
      /\ batch[b].pc # "cancelled"
      /\ \A k \in TasksOf(b) : Task(b, k).pc # "cancelled"
      /\ mainPc = "raised" => batch[b].summary # None

\* C13: a listing call that exits with a non-zero status, or whose payload
\* is malformed, fails the listing and aborts the stop, restart or delete
\* around it: the next step of the operation raises, with no per-instance
\* call dispatched and no summary printed.
C13_FailedListingAborts ==
  [][\A b \in DOMAIN batch :
       (/\ batch[b].pc = "listed"
        /\ \/ Get(batch[b].proc).returncode # 0
           \/ ~Get(batch[b].proc).json
        /\ batch' # batch) =>
         /\ batch'[b].pc = "raised" /\ mainPc' = "raised"
         /\ batch'[b].tasks = <<>>
         /\ batch'[b].summary = None
         /\ out' = out /\ readyQ' = <<>>]_vars

\* The part of C13 the code keeps: a payload json.loads rejects aborts the
\* operation before any per-instance call and before the summary.
C13_MalformedListingAborts ==
  [][\A b \in DOMAIN batch :
       (/\ batch[b].pc = "listed"
        /\ ~Get(batch[b].proc).json
        /\ batch' # batch) =>
         /\ batch'[b].pc = "raised" /\ mainPc' = "raised"
         /\ batch'[b].tasks = <<>>
         /\ batch'[b].summary = None
         /\ out' = out /\ readyQ' = <<>>]_vars

\* C14: a per-instance operation that raised (the tool could not be started)
\* is fatal to its batch: the batch never reaches its print statement, so
\* it has no summary, and main_async never goes on to a later phase: it
\* stands in the phase of that batch or has raised.
C14_TransportFailureFatal ==
  \A b \in Batches : \A k \in TasksOf(b) :
    Task(b, k).pc = "raised" =>
      /\ batch[b].pc \in {"gather", "raised", "cancelled"}
      /\ batch[b].summary = None
      /\ mainPc \in {batch[b].kind, "raised"}
      /\ batch[b].kind # "create" => \A i \in DOMAIN out : out[i] # batch[b].kind
      /\ (batch[b].pc = "raised" /\ batch[b].kind # "create") => mainPc = "raised"

\* "--stop --delete": a stop call could not be started after another stop
\* call of the batch was; the error left main_async, and delete never began
C14_Witness ==
  /\ args.stop /\ args.delete
  /\ mainPc = "raised"
  /\ \E b \in Batches : \E k \in TasksOf(b) : \E j \in TasksOf(b) :
       /\ batch[b].kind = "stop" /\ batch[b].pc = "raised"
       /\ Task(b, k).pc = "raised" /\ Task(b, k).cmd # None
       /\ Task(b, j).pc \in {"done", "cancelled"}

\* z is what follows the last "/" of zone, or all of zone when it has none
IsLastSegmentOf(z, zone) ==
  LET before == Len(zone) - Len(z)
  IN /\ before >= 0
     /\ \A i \in 1..Len(z) : z[i] # "/" /\ z[i] = zone[before + i]
     /\ before > 0 => zone[before] = "/"

\* the records of a listing an operation of the given kind works on, in
\* listing order
Worked(kind, l) ==
  SelectSeq(l, LAMBDA r : kind = "restart" => r.status = "TERMINATED")

\* C15: stop, restart and delete each make one listing call and then one
\* per-instance call for each record of their working set (every listed
\* record for stop and delete, the TERMINATED ones for restart), each with
\* that record's name and the last "/"-segment of its zone;
\* no call names an instance the listing does not hold, and none is issued
\* without a listing.
C15_OneCallPerListedRecord ==
  \A b \in Batches :
    batch[b].kind \in {"stop", "restart", "delete"} =>
      /\ batch[b].listCalls = 1
      /\ batch[b].listing = None => batch[b].tasks = <<>>
      /\ batch[b].listing # None =>
           LET l == Get(batch[b].listing)
               tasks == batch[b].tasks
               w == Worked(batch[b].kind, l)
               op == CASE batch[b].kind = "stop" -> "stop"
                       [] batch[b].kind = "restart" -> "start"
                       [] batch[b].kind = "delete" -> "delete"
           IN /\ Len(tasks) = Len(w)
              /\ \A k \in DOMAIN tasks :
                   /\ tasks[k].inst = Some(w[k])
                   /\ tasks[k].cmd # None =>
                        LET cmd == Get(tasks[k].cmd)
                        IN /\ cmd.op = op
                           /\ cmd.name = w[k].name
                           /\ IsLastSegmentOf(cmd.zone, w[k].zone)
                           /\ \E i \in DOMAIN l : l[i].name = cmd.name
              /\ Settled => \A k \in DOMAIN tasks : tasks[k].cmd # None

\* "--delete": the listing held a RUNNING record in zone u/y and a record in
\* zone z; both delete calls were issued, the first with zone y, and the
\* summary is printed
C15_Witness ==
  \E b \in Batches :
    /\ batch[b].kind = "delete" /\ batch[b].pc = "done"
    /\ Len(batch[b].tasks) = 2
    /\ Get(Task(b, 1).inst).status = "RUNNING"
    /\ Get(Task(b, 1).inst).zone = <<"u", "/", "y">>
    /\ Get(Task(b, 1).cmd).zone = <<"y">>
    /\ Get(Task(b, 2).cmd).zone = <<"z">>

\* the operation has had its first run, which issues its first external call
Dispatched(t) == t.lookups > 0 \/ t.cmd # None

\* name ends with "-" and the decimal numeral of i
HasOrdinal(name, i) ==
  LET numeral == Str(i)
      before == Len(name) - Len(numeral)
  IN /\ before > 0
     /\ \A j \in 1..Len(numeral) : name[before + j] = numeral[j]
     /\ name[before] = "-"

\* where a record stands in a listing
PositionIn(l, inst) == CHOOSE i \in DOMAIN l : l[i] = inst

\* C16: the operations of a batch stand in insertion order (name ordinal
\* for create, listing order for stop, restart and delete) and are
\* dispatched in that order: an operation has its first run, and issues its
\* first external call, only after the operation before it; the summary
\* is printed only when every operation of the batch has returned; and its
\* counts are a function of the operations' results alone: attempted is
\* their number and succeeded the number of true results, in whatever order
\* they returned.
C16_InsertionOrderAndFullWait ==
  \A b \in Batches :
    batch[b].kind \in FanOutKinds =>
      LET tasks == batch[b].tasks
      IN /\ \A j \in 2..Len(tasks) :
              /\ Dispatched(tasks[j]) => Dispatched(tasks[j - 1])
              /\ tasks[j].pc # "ready" => tasks[j - 1].pc # "ready"
              /\ (batch[b].kind # "create" /\ batch[b].listing # None) =>
                   PositionIn(Get(batch[b].listing), Get(tasks[j - 1].inst))
                     < PositionIn(Get(batch[b].listing), Get(tasks[j].inst))
         /\ batch[b].kind = "create" =>
              \A k \in DOMAIN tasks : HasOrdinal(tasks[k].name, k - 1)
         /\ batch[b].summary # None =>
              /\ \A k \in DOMAIN tasks : tasks[k].pc = "done" /\ tasks[k].result # None
              /\ Get(batch[b].summary).attempted = Len(tasks)
              /\ Get(batch[b].summary).succeeded =
                   Cardinality({k \in DOMAIN tasks : tasks[k].result = Some(TRUE)})

\* the second operation of a batch has returned while the first, dispatched
\* before it, is still under way, and no summary is printed yet
C16_Witness ==
  \E b \in Batches :
    /\ batch[b].kind \in FanOutKinds
    /\ Len(batch[b].tasks) = 2
    /\ Task(b, 1).pc = "call" /\ Task(b, 2).pc = "done"
    /\ batch[b].summary = None /\ batch[b].pc = "gather"

\* C17: in every create operation the zone is resolved first, then the
\* script is written, then the create call is issued: an operation that
\* wrote the script had its zone (given, or taken from the list its lookup
\* returned); an operation that issued the create call, started or not,
\* had written the script, and the file the call names exists; an
\* operation without a zone has written nothing and issued nothing.
C17_ZoneThenScriptThenCall ==
  \A b \in CreateBatches : \A k \in TasksOf(b) :
    LET t == Task(b, k)
        resolved == \/ batch[b].zone # None
                    \/ t.zones # None /\ Get(t.zones) # <<>>
    IN /\ t.wrote # None => resolved
       /\ t.cmd # None =>
            /\ t.wrote # None
            /\ Get(t.cmd).op = "create"
            /\ Get(t.cmd).script # None
            /\ Get(Get(t.cmd).script) \in DOMAIN files
            /\ IF batch[b].zone # None
               THEN Get(t.cmd).zone = Get(batch[b].zone)
               ELSE \E i \in 1..Len(Get(t.zones)) : Get(t.zones)[i] = Get(t.cmd).zone
       /\ ~resolved => t.wrote = None /\ t.cmd = None
       /\ t.pc \in {"call", "done"} => t.cmd # None

\* a create without a given zone looked the zones up and wrote the script,
\* and then its create call could not be started
C17_Witness ==
  \E b \in CreateBatches : \E k \in TasksOf(b) :
    /\ batch[b].zone = None
    /\ Task(b, k).pc = "raised"
    /\ Task(b, k).zones # None /\ Task(b, k).cmd # None
    /\ Task(b, k).wrote = Some(files[ScriptName(batch[b].docker_tag)])

\* where main_async stands, as a number: the phases in the order create,
\* stop, restart, delete, list, between its start and its end
Rank(p) ==
  CASE p = "start" -> 0 [] p = "create" -> 1 [] p = "stop" -> 2
    [] p = "restart" -> 3 [] p = "delete" -> 4 [] p = "list" -> 5
    [] OTHER -> 6

FlagSet(r) ==
  CASE r = 1 -> args.create # <<>> [] r = 2 -> args.stop [] r = 3 -> args.restart
    [] r = 4 -> args.delete [] r = 5 -> args.list [] OTHER -> FALSE

\* C18: the phases of one invocation run in the order create, stop,
\* restart, delete, list: main_async only moves forward in that order, to
\* the next phase whose flag is set; it leaves a phase only when every batch
\* and every operation of that phase is over; a summary is printed in the
\* phase it belongs to; and stop, restart and delete each begin with a
\* listing call of their own, with no listing and no operation carried over.
C18_PhasesInOrder ==
  [][/\ out' # out => out' = Append(out, mainPc)
     /\ (mainPc' # mainPc /\ mainPc' # "raised") =>
          /\ Rank(mainPc') > Rank(mainPc)
          /\ Rank(mainPc') < 6 => FlagSet(Rank(mainPc'))
          /\ \A r \in (Rank(mainPc) + 1)..(Rank(mainPc') - 1) : ~FlagSet(r)
          /\ \A b \in DOMAIN batch :
               /\ batch[b].pc = "done"
               /\ \A k \in DOMAIN batch[b].tasks : batch[b].tasks[k].pc = "done"
          /\ mainPc' \in {"stop", "restart", "delete"} =>
               /\ Len(batch') = 1
               /\ batch'[1].kind = mainPc' /\ batch'[1].pc = "listing"
               /\ batch'[1].listCalls = 1
               /\ batch'[1].listing = None /\ batch'[1].tasks = <<>>
               /\ readyQ' = <<>>]_vars

\* "--create a 1 --stop --delete": the create summary and the stop summary
\* are printed and delete waits for its own listing
C18_Witness ==
  /\ args.create # <<>> /\ args.stop /\ ~args.restart /\ args.delete
  /\ mainPc = "delete"
  /\ out = <<"create", "stop">>
  /\ Len(batch) = 1 /\ batch[1].pc = "listing" /\ batch[1].listing = None

\* every external call the operations of batch b issued has returned: each
\* operation is over, by its return or by the IndexError of random.choice on
\* the empty zone list its lookup returned (an operation whose tool could
\* not be started, or that was cancelled, has a call that did not return)
CallsReturned(b) ==
  \A k \in TasksOf(b) :
    \/ Task(b, k).pc = "done"
    \/ Task(b, k).pc = "raised" /\ Task(b, k).zones = Some(<<>>)

\* the batch dispatched its operations: a create batch past its gather
\* call, a stop, restart or delete whose listing returned
BatchDispatched(b) ==
  /\ batch[b].kind \in FanOutKinds
  /\ batch[b].pc \notin {"ready", "listing", "listed"}
  /\ batch[b].kind # "create" => batch[b].listing # None

\* C19: a batch's completion depends on its external calls returning.  When
\* the invocation is over, a dispatched batch whose external calls have all
\* returned has printed its summary (there is no later step in which it
\* could); and a batch with an external call that has not returned has
\* printed none.
C19_SummaryIffCallsReturn ==
  \A b \in Batches :
    /\ (mainPc \in {"done", "raised"} /\ BatchDispatched(b) /\ CallsReturned(b)) =>
         batch[b].summary # None
    /\ (\E k \in TasksOf(b) : Task(b, k).pc \in {"zones", "call"}) =>
         batch[b].summary = None /\ batch[b].pc # "done"

\* The part of C19 the code keeps: no summary while a call is under way, and
\* a summary only over operations that have all returned.
C19_NoSummaryBeforeReturns ==
  \A b \in Batches :
    /\ (\E k \in TasksOf(b) : Task(b, k).pc \in {"zones", "call"}) =>
         batch[b].summary = None /\ batch[b].pc # "done"
    /\ batch[b].summary # None => \A k \in TasksOf(b) : Task(b, k).pc = "done"

====
